---- MODULE Spec2Model ----
(***************************************************************************)
(* A model of src/main.py: the picture-description extractor               *)
(* (extract_picture_descriptions), the upload handler (upload_form), the   *)
(* report download handler (download_report) and the process-wide          *)
(* last_report_data slot they share.                                       *)
(*                                                                         *)
(* Conventions.                                                            *)
(*   - A Python str that the code inspects character by character (an      *)
(*     archive member path, an uploaded file name) is a tuple of           *)
(*     one-character strings; Str turns it into a TLA+ string where the    *)
(*     code only formats it.                                               *)
(*   - A Python value that may be None is None == <<>> or Some(v) == <<v>>.*)
(*   - A slide's XML is the sequence of its elements in document order     *)
(*     (what '//' walks), or not well-formed.                              *)
(*   - The two header glyphs of the report cannot be written in a TLA+     *)
(*     string; they are written <file-icon> and <clock-icon>.              *)
(***************************************************************************)
EXTENDS Integers, Sequences, FiniteSets, TLC

VARIABLES
    \* ---- extract_picture_descriptions, one invocation (SpecExtract) ----
    pptx_bytes,       \* the argument: the uploaded buffer
    pc,               \* position in the function
    slide_files,      \* local: the sorted slide member names
    index,            \* local: enumerate(slide_files, start=1)
    slides_output,    \* local: the list being built
    outcome,          \* what the call did: pending, returned a value, raised
    \* ---- the web handlers (SpecServer) ----
    last_report_data, \* module global, lines 24-27
    up,               \* per upload_form request: position and locals
    dl                \* the download_report request (a threadpool thread)

extractVars == <<pptx_bytes, pc, slide_files, index, slides_output, outcome>>
serverVars == <<last_report_data, up, dl>>
vars == <<pptx_bytes, pc, slide_files, index, slides_output, outcome,
          last_report_data, up, dl>>

----------------------------------------------------------------------------
\* Bounds of the model.

\* Longest archive listing drawn for the ordering inputs.
MaxMembers == 3
\* Most elements in one slide's markup drawn for the markup inputs.
MaxNodes == 3
\* Concurrent upload_form requests.
MaxUploads == 2

----------------------------------------------------------------------------
\* Python values.

None == << >>
Some(v) == <<v>>

\* ''.join of a tuple of characters.
RECURSIVE Str(_)
Str(s) == IF s = << >> THEN "" ELSE Head(s) \o Str(Tail(s))

\* str.startswith
StartsWith(s, p) == Len(s) >= Len(p) /\ SubSeq(s, 1, Len(p)) = p

\* str.endswith
EndsWith(s, p) == Len(s) >= Len(p) /\ SubSeq(s, Len(s) - Len(p) + 1, Len(s)) = p

DigitChars == <<"0", "1", "2", "3", "4", "5", "6", "7", "8", "9">>

\* str.isdigit on one character
IsDigit(c) == \E d \in 1..Len(DigitChars) : DigitChars[d] = c

DigitVal(c) == (CHOOSE d \in 1..Len(DigitChars) : DigitChars[d] = c) - 1

\* filter(str.isdigit, x)
FilterDigits(x) == SelectSeq(x, IsDigit)

\* int(s) for a string of decimal digits; Python integers do not overflow.
RECURSIVE IntOfDigits(_)
IntOfDigits(ds) ==
    IF ds = << >> THEN 0
    ELSE 10 * IntOfDigits(SubSeq(ds, 1, Len(ds) - 1)) + DigitVal(ds[Len(ds)])

\* int('') raises ValueError
IntRaises(x) == FilterDigits(x) = << >>

\* key=lambda x: int(''.join(filter(str.isdigit, x)))
SortKey(x) == IntOfDigits(FilterDigits(x))

----------------------------------------------------------------------------
\* The archive (zipfile.ZipFile over the buffer).

SLIDE_PREFIX == <<"p","p","t","/","s","l","i","d","e","s","/","s","l","i","d","e">>
XML_EXT == <<".","x","m","l">>

P_NS == "http://schemas.openxmlformats.org/presentationml/2006/main"
A_NS == "http://schemas.openxmlformats.org/drawingml/2006/main"
NAMESPACES == [p |-> P_NS, a |-> A_NS]

NO_DESCRIPTION == "(No description)"

\* pptx_zip.namelist(): the member names in listing order
NameList(b) == [i \in 1..Len(b.members) |-> b.members[i].filename]

\* the list comprehension of line 68
RECURSIVE SelectSlides(_)
SelectSlides(names) ==
    IF names = << >> THEN << >>
    ELSE LET f == Head(names) IN
         IF StartsWith(f, SLIDE_PREFIX) /\ EndsWith(f, XML_EXT)
         THEN <<f>> \o SelectSlides(Tail(names))
         ELSE SelectSlides(Tail(names))

\* An insertion that puts x before the elements whose key equals its own.
RECURSIVE InsertUnstable(_, _)
InsertUnstable(x, s) ==
    IF s = << >> THEN <<x>>
    ELSE IF SortKey(Head(s)) < SortKey(x)
         THEN <<Head(s)>> \o InsertUnstable(x, Tail(s))
         ELSE <<x>> \o s

\* One step of a stable ascending sort: x goes after every element whose key
\* is not greater than its own.
RECURSIVE Insert(_, _)
Insert(x, s) ==
    IF s = << >> THEN <<x>>
    ELSE IF SortKey(Head(s)) <= SortKey(x)
         THEN <<Head(s)>> \o Insert(x, Tail(s))
         ELSE <<x>> \o s

\* sorted(names, key=SortKey): Python's sort is stable and ascending.
RECURSIVE Sorted(_)
Sorted(names) ==
    IF names = << >> THEN << >>
    ELSE Insert(names[Len(names)], Sorted(SubSeq(names, 1, Len(names) - 1)))

\* pptx_zip.open(name): a name listed twice resolves to its last entry.
ZipOpen(b, name) ==
    LET i == CHOOSE i \in 1..Len(b.members) :
                 /\ b.members[i].filename = name
                 /\ \A j \in (i+1)..Len(b.members) : b.members[j].filename # name
    IN b.members[i].data

\* etree.parse(file) raises XMLSyntaxError
ParseRaises(data) == ~data.wellformed

\* the predicate of tree.xpath('//p:cNvPr', namespaces=...)
MatchesAnyNamespace(el) == el.tag = "cNvPr"

Matches(el) == el.ns = NAMESPACES.p /\ el.tag = "cNvPr"

\* tree.xpath('//p:cNvPr', ...): the matching elements in document order
XPath(tree) == SelectSeq(tree, Matches)

\* pic.get('descr')
Get(el, name) == IF name \in DOMAIN el.attrib THEN Some(el.attrib[name]) ELSE None

\* line 89 with "is not None" for the truth test
DescKeepEmpty(descr) == IF descr # None THEN descr[1] ELSE NO_DESCRIPTION

\* line 89: desc = descr if descr else "(No description)"
Desc(descr) == IF descr # None /\ descr[1] # "" THEN descr[1] ELSE NO_DESCRIPTION

\* lines 77-91: the loop over the matched elements of one parsed slide
RECURSIVE CollectDescriptions(_)
CollectDescriptions(pics) ==
    IF pics = << >> THEN << >>
    ELSE <<Desc(Get(Head(pics), "descr"))>> \o CollectDescriptions(Tail(pics))

SlideDescriptions(data) == CollectDescriptions(XPath(data.elements))

\* What a call does: it returns a value or raises.
Pending == [kind |-> "pending", value |-> << >>, exc |-> ""]
Returned(v) == [kind |-> "returned", value |-> v, exc |-> ""]
Raised(e) == [kind |-> "raised", value |-> << >>, exc |-> e]

\* lines 59-103 as one function of the buffer
Extract(b) ==
    IF ~b.is_zip THEN Raised("BadZipFile")
    ELSE LET selected == SelectSlides(NameList(b)) IN
         IF \E i \in 1..Len(selected) : IntRaises(selected[i])
         THEN Raised("ValueError")
         ELSE LET files == Sorted(selected) IN
              IF \E i \in 1..Len(files) : ParseRaises(ZipOpen(b, files[i]))
              THEN Raised("XMLSyntaxError")
              ELSE Returned([i \in 1..Len(files) |->
                       [slide |-> i,
                        descriptions |-> SlideDescriptions(ZipOpen(b, files[i]))]])

----------------------------------------------------------------------------
\* Inputs.

SeqsUpTo(S, n) == UNION {[1..k -> S] : k \in 0..n}

SlidePath(mid) == SLIDE_PREFIX \o mid \o XML_EXT

Slide1 == SlidePath(<<"1">>)
Slide2 == SlidePath(<<"2">>)
Slide10 == SlidePath(<<"1", "0">>)
\* ppt/slides/slide0_1.xml: digits 0 and 1, the key of slide1.xml
Slide0_1 == SlidePath(<<"0", "_", "1">>)
\* ppt/slides/slide.xml: no digit at all
SlideNoDigit == SlidePath(<< >>)
\* ppt/slides/slide1.xml.rels: the prefix without the extension
SlideRels == SlidePath(<<"1">>) \o <<".","r","e","l","s">>
\* ppt/media/image1.xml: the extension without the prefix
MediaXml == <<"p","p","t","/","m","e","d","i","a","/","i","m","a","g","e","1">> \o XML_EXT

PicChart == [ns |-> P_NS, tag |-> "cNvPr", attrib |-> [name |-> "Picture 1", descr |-> "Chart"]]
PicSmiling == [ns |-> P_NS, tag |-> "cNvPr", attrib |-> [name |-> "Picture 2", descr |-> "A person smiling"]]
PicNoDescr == [ns |-> P_NS, tag |-> "cNvPr", attrib |-> [name |-> "Picture 3"]]
PicEmptyDescr == [ns |-> P_NS, tag |-> "cNvPr", attrib |-> [name |-> "Picture 4", descr |-> ""]]
DrawingCNvPr == [ns |-> A_NS, tag |-> "cNvPr", attrib |-> [name |-> "Shape 5", descr |-> "Logo"]]
PicElement == [ns |-> P_NS, tag |-> "pic", attrib |-> [descr |-> "Frame"]]

\* a descr attribute whose text is the placeholder itself
PicSentinelDescr == [ns |-> P_NS, tag |-> "cNvPr", attrib |-> [name |-> "Picture 6", descr |-> NO_DESCRIPTION]]

Elements == {PicChart, PicSmiling, PicNoDescr, PicEmptyDescr, PicSentinelDescr,
             DrawingCNvPr, PicElement}

Malformed == [wellformed |-> FALSE, elements |-> << >>]
Doc(els) == [wellformed |-> TRUE, elements |-> els]

\* The members of the ordering inputs: slides 1, 2 and 10 and a second path
\* with the key of slide 1, with contents that differ; slides that do not
\* parse (a path listed twice resolves to its last entry); a slide path
\* without a digit; and two members that are not slides.
DocA == Doc(<<PicChart>>)
DocB == Doc(<<PicNoDescr, PicSmiling>>)
Member(f, d) == [filename |-> f, data |-> d]
OrderMembers ==
    {Member(Slide1, DocA), Member(Slide1, Malformed),
     Member(Slide2, DocB), Member(Slide2, Malformed),
     Member(Slide10, DocA), Member(Slide10, Malformed),
     Member(Slide0_1, DocB), Member(SlideNoDigit, DocA),
     Member(SlideRels, Doc(<< >>)), Member(MediaXml, Doc(<< >>))}

MarkupDocs == {Doc(els) : els \in SeqsUpTo(Elements, MaxNodes)}

NotAZip == [is_zip |-> FALSE, members |-> << >>]
Archive(ms) == [is_zip |-> TRUE, members |-> ms]

OrderArchives == {Archive(ms) : ms \in SeqsUpTo(OrderMembers, MaxMembers)}
MarkupArchives == {Archive(<<Member(Slide1, d)>>) : d \in MarkupDocs}

Buffers == {NotAZip} \cup OrderArchives \cup MarkupArchives

----------------------------------------------------------------------------
\* extract_picture_descriptions, step by step.

\* One upload_form request that has not arrived.
IdleUpload == [pc |-> "idle", file |-> None, descriptions |-> None, response |-> None]

\* The download_report request before it arrives.
IdleDownload ==
    [pc |-> "idle", filename |-> None, descriptions |-> None, timestamp |-> "",
     report_lines |-> << >>, response |-> None]

\* lines 24-27, with no request in flight
ServerIdle ==
    /\ last_report_data = [filename |-> None, descriptions |-> None]
    /\ up = [i \in 1..MaxUploads |-> IdleUpload]
    /\ dl = IdleDownload

InitExtract ==
    /\ pptx_bytes \in Buffers
    /\ pc = "open"
    /\ slide_files = << >>
    /\ index = 1
    /\ slides_output = << >>
    /\ outcome = Pending
    /\ ServerIdle

\* line 64: zipfile.ZipFile(io.BytesIO(pptx_bytes))
OpenZip ==
    /\ pc = "open"
    /\ IF pptx_bytes.is_zip
       THEN pc' = "sort" /\ outcome' = outcome
       ELSE pc' = "done" /\ outcome' = Raised("BadZipFile")
    /\ UNCHANGED <<pptx_bytes, slide_files, index, slides_output>>
    /\ UNCHANGED serverVars

\* lines 67-70: select the slide members and sort them by their number
SortSlides ==
    /\ pc = "sort"
    /\ LET selected == SelectSlides(NameList(pptx_bytes)) IN
       IF \E i \in 1..Len(selected) : IntRaises(selected[i])
       THEN /\ pc' = "done"
            /\ outcome' = Raised("ValueError")
            /\ slide_files' = slide_files
       ELSE /\ pc' = "loop"
            /\ outcome' = outcome
            /\ slide_files' = Sorted(selected)
    /\ UNCHANGED <<pptx_bytes, index, slides_output>>
    /\ UNCHANGED serverVars

\* a loop body that drops a slide that does not parse
ParseSlideSkipBad ==
    /\ pc = "loop"
    /\ index <= Len(slide_files)
    /\ LET data == ZipOpen(pptx_bytes, slide_files[index]) IN
       /\ slides_output' =
              IF ParseRaises(data) THEN slides_output
              ELSE Append(slides_output,
                          [slide |-> index, descriptions |-> SlideDescriptions(data)])
       /\ index' = index + 1
       /\ pc' = pc
       /\ outcome' = outcome
    /\ UNCHANGED <<pptx_bytes, slide_files>>
    /\ UNCHANGED serverVars

\* lines 75-97: one iteration of the loop over slide_files
ParseSlide ==
    /\ pc = "loop"
    /\ index <= Len(slide_files)
    /\ LET data == ZipOpen(pptx_bytes, slide_files[index]) IN
       IF ParseRaises(data)
       THEN /\ pc' = "done"
            /\ outcome' = Raised("XMLSyntaxError")
            /\ UNCHANGED <<index, slides_output>>
       ELSE /\ slides_output' =
                   Append(slides_output,
                          [slide |-> index, descriptions |-> SlideDescriptions(data)])
            /\ index' = index + 1
            /\ pc' = pc
            /\ outcome' = outcome
    /\ UNCHANGED <<pptx_bytes, slide_files>>
    /\ UNCHANGED serverVars

\* line 99: return slides_output
ReturnOutput ==
    /\ pc = "loop"
    /\ index > Len(slide_files)
    /\ pc' = "done"
    /\ outcome' = Returned(slides_output)
    /\ UNCHANGED <<pptx_bytes, slide_files, index, slides_output>>
    /\ UNCHANGED serverVars

NextExtract == OpenZip \/ SortSlides \/ ParseSlide \/ ReturnOutput

SpecExtract == InitExtract /\ [][NextExtract]_vars

\* The step-by-step call ends as the function of the buffer does.
StepsAgreeWithExtract == pc = "done" => outcome = Extract(pptx_bytes)

----------------------------------------------------------------------------
\* The web handlers: upload_form runs on the event loop, download_report (a
\* plain def) on a threadpool thread.

PPTX_EXT == <<".","p","p","t","x">>

DeckPptx == <<"d","e","c","k">> \o PPTX_EXT
TalkPptx == <<"t","a","l","k">> \o PPTX_EXT
NotesTxt == <<"n","o","t","e","s",".","t","x","t">>

\* The uploads drawn: a file with another extension, a buffer that is no
\* archive, an archive without slides, one slide, two slides.
OneSlide == Archive(<<Member(Slide1, Doc(<<PicNoDescr, PicChart>>))>>)
TwoSlides == Archive(<<Member(Slide2, DocB), Member(Slide1, DocA), Member(MediaXml, Doc(<< >>))>>)
NoSlides == Archive(<<Member(MediaXml, Doc(<< >>))>>)
UploadFile(name, bytes) == [filename |-> name, content |-> bytes]
Uploads ==
    {UploadFile(NotesTxt, OneSlide), UploadFile(DeckPptx, NotAZip),
     UploadFile(DeckPptx, OneSlide), UploadFile(TalkPptx, TwoSlides),
     UploadFile(TalkPptx, NoSlides)}

\* datetime.now(): the clock readings drawn
Clock ==
    {[year |-> 2025, month |-> 3, day |-> 9, hour |-> 8, minute |-> 5, second |-> 0],
     [year |-> 2026, month |-> 11, day |-> 24, hour |-> 17, minute |-> 40, second |-> 59]}

\* %m, %d, %H, %M, %S: two digits, zero-padded
Pad2(n) == IF n < 10 THEN "0" \o ToString(n) ELSE ToString(n)

\* strftime("%Y-%m-%d %H:%M:%S") for a four-digit year
Strftime(t) ==
    ToString(t.year) \o "-" \o Pad2(t.month) \o "-" \o Pad2(t.day) \o " " \o
    Pad2(t.hour) \o ":" \o Pad2(t.minute) \o ":" \o Pad2(t.second)

\* templates.TemplateResponse("index.html", {...}): the context that matters
TemplateResponse(error, descriptions) == [error |-> error, descriptions |-> descriptions]

\* The event loop runs one coroutine at a time: a request between its
\* extraction and its last store holds it.
EventLoopBusy == \E i \in 1..MaxUploads : up[i].pc \in {"store_filename", "store_descriptions"}

\* lines 124-137: the request arrives, the extension is checked, and the
\* handler awaits file.read()
UpReceive(i) ==
    /\ ~EventLoopBusy
    /\ up[i].pc \in {"idle", "done"}
    /\ \E file \in Uploads :
           up' = [up EXCEPT ![i] =
                     IF ~EndsWith(file.filename, PPTX_EXT)
                     THEN [pc |-> "done", file |-> Some(file), descriptions |-> None,
                           response |-> Some(TemplateResponse(
                               Some("Only .pptx files are supported."), None))]
                     ELSE [pc |-> "reading", file |-> Some(file), descriptions |-> None,
                           response |-> None]]
    /\ UNCHANGED <<last_report_data, dl>>
    /\ UNCHANGED extractVars

\* an exception handler that also forgets the stored result
UpExtractClearsOnError(i) ==
    /\ ~EventLoopBusy
    /\ up[i].pc = "reading"
    /\ LET result == Extract(up[i].file[1].content) IN
       IF result.kind = "raised"
       THEN /\ up' = [up EXCEPT ![i].pc = "done",
                                ![i].response = Some(TemplateResponse(
                                    Some("Error processing file: " \o result.exc), None))]
            /\ last_report_data' = [last_report_data EXCEPT !.descriptions = None]
       ELSE /\ up' = [up EXCEPT ![i].pc = "store_filename",
                                ![i].descriptions = Some(result.value)]
            /\ last_report_data' = last_report_data
    /\ UNCHANGED dl
    /\ UNCHANGED extractVars

\* lines 137-142 and 154-160: the read completes and the extraction runs; an
\* exception is turned into the error page
UpExtract(i) ==
    /\ ~EventLoopBusy
    /\ up[i].pc = "reading"
    /\ LET result == Extract(up[i].file[1].content) IN
       IF result.kind = "raised"
       THEN up' = [up EXCEPT ![i].pc = "done",
                             ![i].response = Some(TemplateResponse(
                                 Some("Error processing file: " \o result.exc), None))]
       ELSE up' = [up EXCEPT ![i].pc = "store_filename",
                             ![i].descriptions = Some(result.value)]
    /\ UNCHANGED <<last_report_data, dl>>
    /\ UNCHANGED extractVars

\* line 145: last_report_data["filename"] = file.filename
UpStoreFilename(i) ==
    /\ up[i].pc = "store_filename"
    /\ last_report_data' = [last_report_data EXCEPT !.filename = Some(up[i].file[1].filename)]
    /\ up' = [up EXCEPT ![i].pc = "store_descriptions"]
    /\ UNCHANGED dl
    /\ UNCHANGED extractVars

\* lines 146-152: last_report_data["descriptions"] = descriptions, and the
\* result page
UpStoreDescriptions(i) ==
    /\ up[i].pc = "store_descriptions"
    /\ last_report_data' = [last_report_data EXCEPT !.descriptions = up[i].descriptions]
    /\ up' = [up EXCEPT ![i].pc = "done",
                        ![i].descriptions = None,
                        ![i].response = Some(TemplateResponse(None, up[i].descriptions))]
    /\ UNCHANGED dl
    /\ UNCHANGED extractVars

\* HTMLResponse / StreamingResponse of download_report
NoReportResponse ==
    [status_code |-> 400, content |-> "No report available. Please upload a file first.",
     disposition |-> ""]
ReportResponse(content, filename) ==
    [status_code |-> 200, content |-> content,
     disposition |-> "attachment; filename=report_" \o Str(filename) \o ".txt"]

\* Python truth of last_report_data["descriptions"]: None and [] are false
Truthy(descriptions) == descriptions # None /\ descriptions[1] # << >>

\* lines 168-169: the request arrives and the slot is tested
DlCheck ==
    /\ dl.pc \in {"idle", "done"}
    /\ IF ~Truthy(last_report_data.descriptions)
       THEN dl' = [IdleDownload EXCEPT !.pc = "done", !.response = Some(NoReportResponse)]
       ELSE dl' = [IdleDownload EXCEPT !.pc = "read_filename"]
    /\ UNCHANGED <<last_report_data, up>>
    /\ UNCHANGED extractVars

\* line 171: filename = last_report_data["filename"]
DlReadFilename ==
    /\ dl.pc = "read_filename"
    /\ dl' = [dl EXCEPT !.pc = "read_descriptions", !.filename = last_report_data.filename]
    /\ UNCHANGED <<last_report_data, up>>
    /\ UNCHANGED extractVars

\* line 172: descriptions = last_report_data["descriptions"]
DlReadDescriptions ==
    /\ dl.pc = "read_descriptions"
    /\ dl' = [dl EXCEPT !.pc = "build", !.descriptions = last_report_data.descriptions]
    /\ UNCHANGED <<last_report_data, up>>
    /\ UNCHANGED extractVars

\* lines 179-180: the bullet lines of one slide
RECURSIVE BulletLines(_)
BulletLines(descs) ==
    IF descs = << >> THEN << >>
    ELSE <<"  - " \o Head(descs)>> \o BulletLines(Tail(descs))

\* the loop of lines 177-181 without the empty line that ends a slide
RECURSIVE SlideLinesNoBlank(_)
SlideLinesNoBlank(descriptions) ==
    IF descriptions = << >> THEN << >>
    ELSE LET slide == Head(descriptions) IN
         <<"Slide " \o ToString(slide.slide) \o ":">>
         \o BulletLines(slide.descriptions)
         \o SlideLinesNoBlank(Tail(descriptions))

\* lines 177-181: the lines of every slide, in stored order
RECURSIVE SlideLines(_)
SlideLines(descriptions) ==
    IF descriptions = << >> THEN << >>
    ELSE LET slide == Head(descriptions) IN
         <<"Slide " \o ToString(slide.slide) \o ":">>
         \o BulletLines(slide.descriptions)
         \o <<"">>
         \o SlideLines(Tail(descriptions))

\* lines 176-181: report_lines
ReportLines(filename, descriptions, timestamp) ==
    <<"<file-icon> Report for: " \o Str(filename),
      "<clock-icon> Generated: " \o timestamp,
      "">> \o SlideLines(descriptions)

\* "\n".join(lines)
RECURSIVE JoinLines(_)
JoinLines(lines) ==
    IF lines = << >> THEN ""
    ELSE IF Len(lines) = 1 THEN Head(lines)
    ELSE Head(lines) \o "\n" \o JoinLines(Tail(lines))

\* lines 173-188: the clock is read, the report is built and sent
DlBuild ==
    /\ dl.pc = "build"
    /\ \E now \in Clock :
           LET timestamp == Strftime(now)
               report_lines == ReportLines(dl.filename[1], dl.descriptions[1], timestamp)
           IN dl' = [dl EXCEPT !.pc = "done",
                               !.timestamp = timestamp,
                               !.report_lines = report_lines,
                               !.response = Some(ReportResponse(JoinLines(report_lines),
                                                                dl.filename[1]))]
    /\ UNCHANGED <<last_report_data, up>>
    /\ UNCHANGED extractVars

InitServer ==
    /\ ServerIdle
    /\ pptx_bytes = NotAZip
    /\ pc = "idle"
    /\ slide_files = << >>
    /\ index = 1
    /\ slides_output = << >>
    /\ outcome = Pending

NextServer ==
    \/ \E i \in 1..MaxUploads :
           \/ UpReceive(i)
           \/ UpExtract(i)
           \/ UpStoreFilename(i)
           \/ UpStoreDescriptions(i)
    \/ DlCheck
    \/ DlReadFilename
    \/ DlReadDescriptions
    \/ DlBuild

SpecServer == InitServer /\ [][NextServer]_vars

----------------------------------------------------------------------------
\* Properties of extract_picture_descriptions (checked under SpecExtract).

\* A listed path is a slide member.
Qualifying(f) == StartsWith(f, SLIDE_PREFIX) /\ EndsWith(f, XML_EXT)

\* The listing positions that hold slide members, and their number N.
QualifyingAt == {i \in 1..Len(pptx_bytes.members) : Qualifying(pptx_bytes.members[i].filename)}
QualifyingCount == Cardinality(QualifyingAt)

\* The content the archive gives for a selected path.
ContentOf(f) == ZipOpen(pptx_bytes, f)

\* Every selected slide member parses as XML.
AllSlidesParse ==
    \A i \in QualifyingAt : ContentOf(pptx_bytes.members[i].filename).wellformed

\* The digits of a path read left to right as one decimal number.
RECURSIVE DigitsValue(_, _)
DigitsValue(f, acc) ==
    IF f = << >> THEN acc
    ELSE IF Head(f) \in {"0", "1", "2", "3", "4", "5", "6", "7", "8", "9"}
         THEN DigitsValue(Tail(f), 10 * acc +
                  (CASE Head(f) = "0" -> 0 [] Head(f) = "1" -> 1 [] Head(f) = "2" -> 2
                     [] Head(f) = "3" -> 3 [] Head(f) = "4" -> 4 [] Head(f) = "5" -> 5
                     [] Head(f) = "6" -> 6 [] Head(f) = "7" -> 7 [] Head(f) = "8" -> 8
                     [] Head(f) = "9" -> 9))
         ELSE DigitsValue(Tail(f), acc)

\* The place of listing position i in the stable ascending order by key:
\* after every position with a smaller key, and after every earlier position
\* with the same key.
StableRank(i) ==
    LET key(j) == DigitsValue(pptx_bytes.members[j].filename, 0) IN
    Cardinality({j \in QualifyingAt : key(j) < key(i) \/ (key(j) = key(i) /\ j <= i)})

\* The path at place k of that order.
StableOrderAt(k) ==
    pptx_bytes.members[CHOOSE i \in QualifyingAt : StableRank(i) = k].filename

\* The positions of a slide's elements that are presentationml cNvPr elements.
PicsAt(els) == {i \in 1..Len(els) : els[i].ns = P_NS /\ els[i].tag = "cNvPr"}

\* The place of matched element i among the matched elements, in document order.
PicRank(els, i) == Cardinality({j \in PicsAt(els) : j <= i})

\* C1: for a readable archive with N qualifying slide members, all of which
\* parse, in any listing order, the call returns exactly N slide results
\* whose indices are 1, 2, ..., N in ascending order; for N = 0 it returns
\* an empty result and does not raise.
C1_ExactlyNSlidesIndexed ==
    (pc = "done" /\ pptx_bytes.is_zip /\ AllSlidesParse) =>
        /\ outcome.kind = "returned"
        /\ Len(outcome.value) = QualifyingCount
        /\ \A k \in 1..Len(outcome.value) : outcome.value[k].slide = k

\* C2: the k-th slide result is built from the k-th path of the stable
\* ascending sort of the selected paths by the number their digits spell:
\* the order is numeric, and paths with equal keys keep their listing order.
C2_StableNumericOrder ==
    /\ pc = "loop" \/ (pc = "done" /\ outcome.kind = "returned") =>
           /\ Len(slide_files) = QualifyingCount
           /\ \A k \in 1..Len(slide_files) : slide_files[k] = StableOrderAt(k)
    /\ \A k \in 1..Len(slides_output) :
           /\ slides_output[k].slide = k
           /\ slides_output[k].descriptions = SlideDescriptions(ContentOf(StableOrderAt(k)))
    /\ outcome.kind = "returned" =>
           /\ outcome.value = slides_output
           /\ Len(outcome.value) = QualifyingCount

\* C2's case: slide2, slide10, slide1 in listing order come out as slide1,
\* slide2, slide10, each with its own content.
C2_Witness ==
    /\ outcome.kind = "returned"
    /\ NameList(pptx_bytes) = <<Slide2, Slide10, Slide1>>
    /\ slide_files = <<Slide1, Slide2, Slide10>>
    /\ pptx_bytes.members[3].data # pptx_bytes.members[1].data
    /\ outcome.value[1].descriptions # outcome.value[2].descriptions

\* C3: the call is all-or-nothing: when the buffer is not a readable archive,
\* or the content of any selected slide path does not parse, it raises and
\* returns nothing; a returned result holds every selected slide.
C3_AllOrNothing ==
    pc = "done" =>
        /\ (~pptx_bytes.is_zip \/ ~AllSlidesParse) =>
               outcome.kind = "raised" /\ outcome.value = << >>
        /\ outcome.kind = "returned" =>
               /\ AllSlidesParse
               /\ Len(outcome.value) = QualifyingCount
        /\ outcome.kind \in {"returned", "raised"}

\* C3's case: a slide was parsed and collected, then a later one failed.
C3_Witness ==
    /\ pc = "done"
    /\ Len(slides_output) >= 1
    /\ outcome = Raised("XMLSyntaxError")

\* C4: the call returns a result or fails with an archive error or a slide
\* XML parse error, nothing else; it returns whenever the archive is readable
\* and every selected slide parses, also for a path without any digit.
C4_OnlyArchiveOrXmlErrors ==
    pc = "done" =>
        /\ outcome.kind = "raised" => outcome.exc \in {"BadZipFile", "XMLSyntaxError"}
        /\ (pptx_bytes.is_zip /\ AllSlidesParse) => outcome.kind = "returned"

\* C5: a slide's descriptions hold one entry per presentationml cNvPr
\* element of its markup, in document order, nothing dropped or merged;
\* other namespaces and other local names contribute nothing.
C5_OneEntryPerMatchedNode ==
    \A k \in 1..Len(slides_output) :
        LET els == ContentOf(slide_files[k]).elements
            descs == slides_output[k].descriptions
        IN /\ Len(descs) = Cardinality(PicsAt(els))
           /\ \A i \in PicsAt(els) : descs[PicRank(els, i)] = Desc(Get(els[i], "descr"))

\* C5's case: a drawingml cNvPr and a p:pic between two equal p:cNvPr.
C5_Witness ==
    /\ outcome.kind = "returned"
    /\ Len(outcome.value) = 1
    /\ ContentOf(slide_files[1]).elements = <<PicChart, DrawingCNvPr, PicChart>>
    /\ outcome.value[1].descriptions = <<"Chart", "Chart">>

\* C6: a matched node's entry is its descr attribute verbatim when the
\* attribute is present and not empty, and the placeholder when it is absent
\* or empty; nothing else is produced.
C6_DescrOrSentinel ==
    \A k \in 1..Len(slides_output) :
        LET els == ContentOf(slide_files[k]).elements
            descs == slides_output[k].descriptions
        IN \A i \in PicsAt(els) :
               LET d == descs[PicRank(els, i)]
                   present == "descr" \in DOMAIN els[i].attrib
               IN /\ (present /\ els[i].attrib.descr # "") => d = els[i].attrib.descr
                  /\ (~present \/ els[i].attrib.descr = "") => d = "(No description)"

\* C6's case: no attribute, an empty attribute, and a real description.
C6_Witness ==
    /\ outcome.kind = "returned"
    /\ Len(outcome.value) = 1
    /\ ContentOf(slide_files[1]).elements = <<PicNoDescr, PicEmptyDescr, PicSmiling>>
    /\ outcome.value[1].descriptions =
           <<"(No description)", "(No description)", "A person smiling">>

----------------------------------------------------------------------------
\* Properties of the handlers and the last_report_data slot (checked under
\* SpecServer).

\* The number of report lines that come before slide k's "Slide <index>:".
RECURSIVE LinesBefore(_, _)
LinesBefore(ds, k) ==
    IF k = 1 THEN 3
    ELSE LinesBefore(ds, k - 1) + Len(ds[k - 1].descriptions) + 2

\* The first n lines, each followed by a line break except the last.
RECURSIVE NewlineJoin(_, _)
NewlineJoin(lines, n) ==
    IF n = 0 THEN ""
    ELSE IF n = 1 THEN lines[1]
    ELSE NewlineJoin(lines, n - 1) \o "\n" \o lines[n]

\* The slot's two fields as one upload's successful extraction leaves them.
SlotOf(file) ==
    [filename |-> Some(file.filename), descriptions |-> Some(Extract(file.content).value)]

\* The uploads that are accepted and whose extraction returns.
Successful(file) ==
    EndsWith(file.filename, PPTX_EXT) /\ Extract(file.content).kind = "returned"

\* What the slot can hold when no store is under way.
EmptySlot == [filename |-> None, descriptions |-> None]
StoredSlots == {SlotOf(file) : file \in {f \in Uploads : Successful(f)}}

\* The one-slide result of the report example.
ExampleResult == <<[slide |-> 1, descriptions |-> <<"(No description)", "Chart">>]>>

\* C7: the report is the newline-join of the two header lines, an empty
\* line, and for each slide result in stored order 'Slide <index>:', one
\* '  - <description>' line per description in stored order, and an empty
\* line; one slide holding ["(No description)", "Chart"] gives exactly those
\* seven lines. Building it changes neither field of the slot.
C7_ReportLayout ==
    [][(dl.pc = "build" /\ dl'.pc = "done") =>
          LET filename == dl'.filename[1]
              ds == dl'.descriptions[1]
              lines == dl'.report_lines
              n == Len(ds)
          IN /\ last_report_data' = last_report_data
             /\ dl'.filename = dl.filename /\ dl'.descriptions = dl.descriptions
             /\ dl'.timestamp \in {Strftime(t) : t \in Clock}
             /\ Len(dl'.timestamp) = 19
             /\ Len(lines) = IF n = 0 THEN 3
                             ELSE LinesBefore(ds, n) + Len(ds[n].descriptions) + 2
             /\ lines[1] = "<file-icon> Report for: " \o Str(filename)
             /\ lines[2] = "<clock-icon> Generated: " \o dl'.timestamp
             /\ lines[3] = ""
             /\ \A k \in 1..n :
                    LET at == LinesBefore(ds, k)
                        descs == ds[k].descriptions
                    IN /\ lines[at + 1] = "Slide " \o ToString(ds[k].slide) \o ":"
                       /\ \A m \in 1..Len(descs) : lines[at + 1 + m] = "  - " \o descs[m]
                       /\ lines[at + Len(descs) + 2] = ""
             /\ dl'.response[1].status_code = 200
             /\ dl'.response[1].content = NewlineJoin(lines, Len(lines))
             /\ (filename = DeckPptx /\ ds = ExampleResult) =>
                    lines = <<"<file-icon> Report for: deck.pptx",
                              "<clock-icon> Generated: " \o dl'.timestamp,
                              "", "Slide 1:", "  - (No description)", "  - Chart", "">>
      ]_vars

\* C7's case: the report of the example, as sent.
C7_Witness ==
    /\ dl.pc = "done"
    /\ dl.filename = Some(DeckPptx)
    /\ dl.descriptions = Some(ExampleResult)
    /\ last_report_data = [filename |-> Some(DeckPptx), descriptions |-> Some(ExampleResult)]
    /\ dl.response # None
    /\ dl.response[1].content =
           "<file-icon> Report for: deck.pptx\n<clock-icon> Generated: 2025-03-09 08:05:00\n\nSlide 1:\n  - (No description)\n  - Chart\n"

\* C8: the slot holds the filename and result of the most recent upload
\* whose extraction succeeded, or nothing: a successful upload overwrites
\* both fields with its own filename and result, a rejected upload and an
\* upload whose extraction raises leave both unchanged, and nothing else
\* writes the slot.
C8_SlotHoldsLastSuccess ==
    [][/\ \A i \in 1..MaxUploads :
              /\ (up[i].pc \in {"idle", "done"} /\ up'[i].pc = "done" /\ up'[i] # up[i]) =>
                     /\ ~EndsWith(up'[i].file[1].filename, PPTX_EXT)
                     /\ last_report_data' = last_report_data
              /\ (up[i].pc = "reading" /\ up'[i].pc = "done") =>
                     /\ Extract(up[i].file[1].content).kind = "raised"
                     /\ last_report_data' = last_report_data
              /\ (up[i].pc = "reading" /\ up'[i].pc = "store_filename") =>
                     /\ Extract(up[i].file[1].content).kind = "returned"
                     /\ last_report_data' = last_report_data
              /\ (up[i].pc = "store_descriptions" /\ up'[i].pc = "done") =>
                     /\ Successful(up[i].file[1])
                     /\ last_report_data' = SlotOf(up[i].file[1])
       /\ last_report_data' # last_report_data =>
              \E i \in 1..MaxUploads :
                  /\ up[i].pc \in {"store_filename", "store_descriptions"}
                  /\ up'[i].pc # up[i].pc
                  /\ Successful(up[i].file[1])
       /\ ~EventLoopBusy' => last_report_data' \in {EmptySlot} \cup StoredSlots
      ]_vars

\* C8's case: the slot still holds a stored result after one upload was
\* rejected for its extension and another failed in extraction.
C8_Witness ==
    /\ last_report_data = SlotOf(UploadFile(TalkPptx, TwoSlides))
    /\ up[1].pc = "done" /\ up[1].file = Some(UploadFile(NotesTxt, OneSlide))
    /\ up[2].pc = "done" /\ up[2].file = Some(UploadFile(DeckPptx, NotAZip))
    /\ up[2].response = Some(TemplateResponse(Some("Error processing file: BadZipFile"), None))

\* C9: download_report refuses only when no successful upload has been
\* stored: once a result is stored, also one with zero slides, the request
\* gets a report.
C9_RefusesOnlyWhenNothingStored ==
    [][(dl.pc \in {"idle", "done"} /\ dl'.pc = "done" /\ dl'.response = Some(NoReportResponse))
          => last_report_data.descriptions = None]_vars

\* C10: every report pairs a filename with the descriptions extracted from
\* the same upload.
C10_ReportPairsOneUpload ==
    (dl.pc = "done" /\ dl.response # None /\ dl.response # Some(NoReportResponse)) =>
        \E file \in Uploads :
            /\ Successful(file)
            /\ dl.filename = Some(file.filename)
            /\ dl.descriptions = Some(Extract(file.content).value)

====
